---- MODULE Spec2Model ----
(***************************************************************************)
(* Sequential multi-file decryption workflow of src/main.py: the session   *)
(* state kept in st.session_state, the run button's ingestion loop, the    *)
(* Submit / Cancel callbacks of the password dialog and the processing     *)
(* block that ends a run.                                                  *)
(***************************************************************************)
EXTENDS Integers, Sequences, FiniteSets, TLC

----------------------------------------------------------------------------
(* Bounds and input domains *)

\* largest number of files the uploader hands to one run
MaxFiles == 2

\* the count of failed attempts kept for the record of events stops here
MaxRetries == 2

\* Python's None (get_current_file, record["content"], record["error"])
None == <<>>

\* passwords the user can type; "" is the empty text input
Passwords == {"", "x", "y"}

\* A filename is the sequence of its "."-separated segments: a.pdf is <<"a", "pdf">>.
\* Byte contents are abstracted to what the libraries read from them:
\*   fmt   - the container the bytes really are ("pdf", "ooxml"), whatever the name says
\*   enc   - whether the document is password protected
\*   user  - the password that opens it (PDF user password / office password)
\*   owner - the PDF owner password ("-" when there is none)
PdfBytes(enc, user, owner) == [fmt |-> "pdf", enc |-> enc, user |-> user, owner |-> owner]
OfficeBytes(enc, user) == [fmt |-> "ooxml", enc |-> enc, user |-> user, owner |-> "-"]

UploadedFile(name, bytes) == [name |-> name, bytes |-> bytes]

\* the files a user can pick in the uploader, which admits the suffixes pdf,
\* docx, xlsx and pptx in either case (src/main.py:218-222)
Uploads ==
    { UploadedFile(<<"a", "pdf">>, PdfBytes(FALSE, "-", "-")),      \* plain pdf
      UploadedFile(<<"b", "DOCX">>, OfficeBytes(TRUE, "x")),        \* protected docx, upper-case suffix
      UploadedFile(<<"c", "pdf">>, PdfBytes(TRUE, "x", "y")),       \* protected pdf, user and owner password
      UploadedFile(<<"a", "pdf">>, PdfBytes(TRUE, "", "y")),        \* same name as the first; owner password only
      UploadedFile(<<"e", "xlsx">>, PdfBytes(TRUE, "x", "y")) }     \* xlsx name, bytes msoffcrypto cannot parse

RECURSIVE SeqsUpTo(_, _)
SeqsUpTo(S, n) ==
    IF n = 0 THEN { <<>> }
    ELSE LET shorter == SeqsUpTo(S, n - 1)
         IN  shorter \cup { Append(s, x) : s \in shorter, x \in S }

\* every value the file_uploader widget can return (accept_multiple_files=True)
Batches == SeqsUpTo(Uploads, MaxFiles)

\* The ingestion loop has a branch for other suffixes (src/main.py:254-256),
\* which the uploader never feeds: to exercise it, the same files and one of a
\* suffix the loop does not know, with protected bytes.
AnyUploads ==
    Uploads \cup { UploadedFile(<<"d", "txt">>, OfficeBytes(TRUE, "x")) }

AnyBatches == SeqsUpTo(AnyUploads, MaxFiles)

----------------------------------------------------------------------------
(* Helper functions, src/main.py:12-103 *)

\* str.lower() on the suffixes that occur
lower(s) ==
    CASE s = "PDF" -> "pdf"
      [] s = "DOCX" -> "docx"
      [] s = "XLSX" -> "xlsx"
      [] s = "PPTX" -> "pptx"
      [] OTHER -> s

\* file.name.split(".")[-1].lower()
extension_of(name) == lower(name[Len(name)])

\* PdfReader raises on bytes that are no pdf; the except clause returns False
is_pdf_encrypted(file_bytes) ==
    IF file_bytes.fmt # "pdf" THEN FALSE ELSE file_bytes.enc

\* reader.decrypt returns 0 (failure), 1 (user password) or 2 (owner password);
\* it raises on bytes that are no pdf or not encrypted, and the except clause returns False
decrypt_pdf(file_bytes, password) ==
    IF file_bytes.fmt # "pdf" \/ ~file_bytes.enc THEN FALSE
    ELSE LET result == IF password = file_bytes.user THEN 1
                       ELSE IF password = file_bytes.owner THEN 2 ELSE 0
         IN  result # 0

\* OfficeFile raises on bytes that are no office container; the except clause returns False
is_office_encrypted(file_bytes) ==
    IF file_bytes.fmt # "ooxml" THEN FALSE ELSE file_bytes.enc

\* decrypted bytes on success, None when load_key / decrypt raise
decrypt_office(file_bytes, password) ==
    IF file_bytes.fmt = "ooxml" /\ file_bytes.enc /\ password = file_bytes.user
    THEN OfficeBytes(FALSE, "-")
    ELSE None

\* file_status is the dict in insertion order: a sequence of records keyed by name.
\* The list comprehension of src/main.py:93-99 keeps the dict's order.
get_current_file_last(fs) ==
    LET keep(rec) == rec.encrypted /\ ~rec.decrypted /\ ~rec.excluded
        encrypted_files == SelectSeq(fs, keep)
    IN  IF encrypted_files # <<>> THEN encrypted_files[Len(encrypted_files)].name ELSE None

get_current_file_ignoring_excluded(fs) ==
    LET keep(rec) == rec.encrypted /\ ~rec.decrypted
        encrypted_files == SelectSeq(fs, keep)
    IN  IF encrypted_files # <<>> THEN encrypted_files[1].name ELSE None

get_current_file(fs) ==
    LET keep(rec) == rec.encrypted /\ ~rec.decrypted /\ ~rec.excluded
        encrypted_files == SelectSeq(fs, keep)
    IN  IF encrypted_files # <<>> THEN encrypted_files[1].name ELSE None

\* position of key name in the dict (0 when absent)
IndexOf(fs, name) ==
    IF \E i \in 1..Len(fs) : fs[i].name = name
    THEN CHOOSE i \in 1..Len(fs) : fs[i].name = name
    ELSE 0

----------------------------------------------------------------------------
(* Session state, src/main.py:193-209 *)

VARIABLES
    file_status,      \* st.session_state["file_status"]
    processing,       \* st.session_state["processing"]
    decrypted_files,  \* st.session_state["decrypted_files"]
    excluded_files,   \* st.session_state["excluded_files"]
    error_message,    \* st.session_state["error_message"]
    password_input,   \* st.session_state["password_input"]
    report,           \* the summary the last script run wrote to the page, if any
    uploaded_files,   \* the uploader value the last run ingested
    event             \* the last operation: which callback, the file that was
                      \* pending when it began, and the branch it took

vars == <<file_status, processing, decrypted_files, excluded_files,
          error_message, password_input, report, uploaded_files, event>>

\* messages; the empty string is the empty tuple
NoMessage == <<>>
MsgPasswordRequired == <<"password required">>
MsgIncorrectPassword == <<"incorrect password">>
MsgCancelled(name) == <<"cancelled", name>>

\* failed or empty submits made on the pending file up to and including the
\* last operation
FailedSoFar(e) ==
    IF e.outcome \in {"required", "rejected"}
    THEN IF e.failed_before < MaxRetries THEN e.failed_before + 1 ELSE MaxRetries
    ELSE IF e.outcome \in {"decrypted", "excluded", "ingested", "init"}
    THEN 0
    ELSE e.failed_before

Init ==
    /\ file_status = <<>>
    /\ processing = FALSE
    /\ decrypted_files = <<>>
    /\ excluded_files = <<>>
    /\ error_message = NoMessage
    /\ password_input = ""
    /\ report = None
    /\ uploaded_files = <<>>
    /\ event = [op |-> "init", file |-> None, outcome |-> "init", failed_before |-> 0]

----------------------------------------------------------------------------
(* The run button, src/main.py:225-264 *)

\* the dict literal of src/main.py:238-246
NewRecord(file) ==
    [ name |-> file.name,
      extension |-> extension_of(file.name),
      encrypted |-> FALSE,
      decrypted |-> FALSE,
      excluded |-> FALSE,
      content |-> None,
      file_bytes |-> file.bytes,
      error |-> None ]

\* file_status[name] = rec: a new key is appended, an existing key keeps its
\* place in the dict and gets the new value
DictSet(fs, rec) ==
    LET i == IndexOf(fs, rec.name)
    IN  IF i = 0 THEN Append(fs, rec) ELSE [fs EXCEPT ![i] = rec]

\* a slip: every suffix but pdf is handed to the office check
detect_encrypted_office_by_default(extension, file_bytes) ==
    IF extension = "pdf" THEN is_pdf_encrypted(file_bytes)
    ELSE is_office_encrypted(file_bytes)

\* the if / elif / else of src/main.py:250-256
detect_encrypted(extension, file_bytes) ==
    IF extension = "pdf" THEN is_pdf_encrypted(file_bytes)
    ELSE IF extension \in {"docx", "xlsx", "pptx"} THEN is_office_encrypted(file_bytes)
    ELSE FALSE

\* a slip: the "if not encrypted" block of src/main.py:260-262 forgets the flag
ingest_file_without_flag(st, file) ==
    LET rec0 == NewRecord(file)
        encrypted == detect_encrypted(rec0.extension, file.bytes)
        rec == [rec0 EXCEPT !.encrypted = encrypted]
    IN  [ fs |-> DictSet(st.fs, rec),
          dec |-> IF ~encrypted THEN Append(st.dec, file.name) ELSE st.dec ]

\* one iteration of the loop over uploaded_files; st = [fs, dec] is
\* (file_status, decrypted_files) so far
ingest_file(st, file) ==
    LET rec0 == NewRecord(file)
        encrypted == detect_encrypted(rec0.extension, file.bytes)
        rec == [rec0 EXCEPT !.encrypted = encrypted, !.decrypted = ~encrypted]
    IN  [ fs |-> DictSet(st.fs, rec),
          dec |-> IF ~encrypted THEN Append(st.dec, file.name) ELSE st.dec ]

RECURSIVE ingest(_, _)
ingest(st, files) ==
    IF files = <<>> THEN st
    ELSE ingest(ingest_file(st, Head(files)), Tail(files))

\* a slip: the block ends the run without looking for a pending file
processing_block_stopping(fs, proc) == FALSE

\* the processing block that every script run ends with, src/main.py:267-286:
\* the value of processing after it
processing_block(fs, proc) ==
    IF proc
    THEN IF get_current_file(fs) # None THEN proc ELSE FALSE
    ELSE proc

\* what the same block writes, src/main.py:275-286: the two name lists as they
\* stand, and nothing when the run goes on or none is active
write_summary(fs, proc, dec, exc) ==
    IF proc /\ get_current_file(fs) = None THEN <<dec, exc>> ELSE None

\* the record of an operation that begins in the current state
Event(op, outcome) ==
    [ op |-> op, file |-> get_current_file(file_status), outcome |-> outcome,
      failed_before |-> FailedSoFar(event) ]

\* the loop of src/main.py:236-262 run on every uploader value, from the
\* state the reset of src/main.py:229-230 leaves
Ingested == [files \in AnyBatches |-> ingest([fs |-> <<>>, dec |-> <<>>], files)]

\* a slip: the reset is done before the uploader value is looked at
run_button_resetting_first(files) ==
    IF files # <<>>
    THEN LET st == Ingested[files]
         IN  /\ file_status' = st.fs
             /\ decrypted_files' = st.dec
             /\ excluded_files' = <<>>
             /\ error_message' = NoMessage
             /\ password_input' = ""
             /\ processing' = processing_block(st.fs, TRUE)
             /\ report' = write_summary(st.fs, TRUE, decrypted_files', excluded_files')
             /\ uploaded_files' = files
             /\ event' = Event("run", "ingested")
    ELSE /\ file_status' = <<>>
         /\ decrypted_files' = <<>>
         /\ excluded_files' = <<>>
         /\ error_message' = NoMessage
         /\ password_input' = ""
         /\ processing' = processing_block(<<>>, TRUE)
         /\ report' = write_summary(<<>>, TRUE, decrypted_files', excluded_files')
         /\ UNCHANGED uploaded_files
         /\ event' = Event("run", "warning")

\* a slip: the reset forgets excluded_files
run_button_keeping_excluded(files) ==
    IF files # <<>>
    THEN LET st == Ingested[files]
         IN  /\ file_status' = st.fs
             /\ decrypted_files' = st.dec
             /\ UNCHANGED excluded_files
             /\ error_message' = NoMessage
             /\ password_input' = ""
             /\ processing' = processing_block(st.fs, TRUE)
             /\ report' = write_summary(st.fs, TRUE, decrypted_files', excluded_files')
             /\ uploaded_files' = files
             /\ event' = Event("run", "ingested")
    ELSE /\ processing' = processing_block(file_status, processing)
         /\ report' = write_summary(file_status, processing, decrypted_files', excluded_files')
         /\ UNCHANGED <<file_status, decrypted_files, excluded_files,
                        error_message, password_input, uploaded_files>>
         /\ event' = Event("run", "warning")

run_button(files) ==
    IF files # <<>>
    THEN LET st == Ingested[files]
         IN  /\ file_status' = st.fs
             /\ decrypted_files' = st.dec
             /\ excluded_files' = <<>>
             /\ error_message' = NoMessage
             /\ password_input' = ""
             /\ processing' = processing_block(st.fs, TRUE)
             /\ report' = write_summary(st.fs, TRUE, decrypted_files', excluded_files')
             /\ uploaded_files' = files
             /\ event' = Event("run", "ingested")
    ELSE /\ processing' = processing_block(file_status, processing)
         /\ report' = write_summary(file_status, processing, decrypted_files', excluded_files')
         /\ UNCHANGED <<file_status, decrypted_files, excluded_files,
                        error_message, password_input, uploaded_files>>
         /\ event' = Event("run", "warning")

----------------------------------------------------------------------------
(* The password dialog, src/main.py:111-186 *)

\* st.text_input(..., key="password_input"): the widget writes what the user typed
text_input(password) ==
    /\ password_input' = password
    /\ processing' = processing_block(file_status, processing)
    /\ report' = write_summary(file_status, processing, decrypted_files', excluded_files')
    /\ UNCHANGED <<file_status, decrypted_files, excluded_files, error_message,
                   uploaded_files>>
    /\ event' = Event("type", "none")

\* a slip: the early return reports a missing password first
callback_returns_reporting ==
    /\ error_message' = MsgPasswordRequired
    /\ UNCHANGED <<file_status, decrypted_files, excluded_files,
                   password_input, uploaded_files>>
    /\ processing' = processing_block(file_status, processing)
    /\ report' = write_summary(file_status, processing, decrypted_files', excluded_files')

\* "if not current_file: return" of both callbacks
callback_returns ==
    /\ UNCHANGED <<file_status, decrypted_files, excluded_files,
                   error_message, password_input, uploaded_files>>
    /\ processing' = processing_block(file_status, processing)
    /\ report' = write_summary(file_status, processing, decrypted_files', excluded_files')

\* a slip: the empty password is not caught
is_empty_never(password_attempt) == FALSE

\* "not password_attempt"
is_empty(password_attempt) == password_attempt = ""

\* src/main.py:120-122
submit_empty ==
    /\ error_message' = MsgPasswordRequired
    /\ UNCHANGED <<file_status, decrypted_files, excluded_files,
                   password_input, uploaded_files>>
    /\ processing' = processing_block(file_status, processing)
    /\ report' = write_summary(file_status, processing, decrypted_files', excluded_files')

\* src/main.py:127-131: the primitive for the extension says whether it took the password
attempt_succeeds(extension, file_bytes, password_attempt) ==
    IF extension = "pdf"
    THEN decrypt_pdf(file_bytes, password_attempt)
    ELSE decrypt_office(file_bytes, password_attempt) # None

\* a slip: the decrypted bytes replace the raw bytes
store_content_over_raw_bytes(fs, i, password_attempt) ==
    IF fs[i].extension # "pdf"
    THEN [fs EXCEPT ![i].file_bytes = decrypt_office(fs[i].file_bytes, password_attempt)]
    ELSE fs

\* a slip: bytes are stored for every suffix, pdf too
store_content_for_all(fs, i, password_attempt) ==
    [fs EXCEPT ![i].content =
        IF fs[i].extension # "pdf"
        THEN decrypt_office(fs[i].file_bytes, password_attempt)
        ELSE fs[i].file_bytes]

\* src/main.py:132-133: only the office branch stores the decrypted bytes
store_content(fs, i, password_attempt) ==
    IF fs[i].extension # "pdf"
    THEN [fs EXCEPT ![i].content = decrypt_office(fs[i].file_bytes, password_attempt)]
    ELSE fs

\* a slip: the success branch leaves the old error message
submit_success_keeping_error(current_file, i) ==
    /\ file_status' = [store_content(file_status, i, password_input)
                         EXCEPT ![i].decrypted = TRUE]
    /\ decrypted_files' = Append(decrypted_files, current_file)
    /\ password_input' = ""
    /\ UNCHANGED <<error_message, excluded_files, uploaded_files>>
    /\ processing' = processing_block(file_status', processing)
    /\ report' = write_summary(file_status', processing, decrypted_files', excluded_files')

\* src/main.py:135-141
submit_success(current_file, i) ==
    /\ file_status' = [store_content(file_status, i, password_input)
                         EXCEPT ![i].decrypted = TRUE]
    /\ decrypted_files' = Append(decrypted_files, current_file)
    /\ error_message' = NoMessage
    /\ password_input' = ""
    /\ UNCHANGED <<excluded_files, uploaded_files>>
    /\ processing' = processing_block(file_status', processing)
    /\ report' = write_summary(file_status', processing, decrypted_files', excluded_files')

\* a slip: a rejected password locks the file out
submit_failure_excluding ==
    /\ error_message' = MsgIncorrectPassword
    /\ file_status' = [file_status EXCEPT
            ![IndexOf(file_status, get_current_file(file_status))].excluded = TRUE]
    /\ excluded_files' = Append(excluded_files, get_current_file(file_status))
    /\ UNCHANGED <<decrypted_files, password_input, uploaded_files>>
    /\ processing' = processing_block(file_status', processing)
    /\ report' = write_summary(file_status', processing, decrypted_files', excluded_files')

\* a slip: a rejected password is reported and the file given up as read
submit_failure_giving_up ==
    /\ error_message' = MsgIncorrectPassword
    /\ file_status' = [file_status EXCEPT
            ![IndexOf(file_status, get_current_file(file_status))].decrypted = TRUE]
    /\ UNCHANGED <<decrypted_files, excluded_files, password_input, uploaded_files>>
    /\ processing' = processing_block(file_status', processing)
    /\ report' = write_summary(file_status', processing, decrypted_files', excluded_files')

\* src/main.py:142-143
submit_failure ==
    /\ error_message' = MsgIncorrectPassword
    /\ UNCHANGED <<file_status, decrypted_files, excluded_files,
                   password_input, uploaded_files>>
    /\ processing' = processing_block(file_status, processing)
    /\ report' = write_summary(file_status, processing, decrypted_files', excluded_files')

handle_submit ==
    LET current_file == get_current_file(file_status)
        password_attempt == password_input
        i == IndexOf(file_status, current_file)
    IN  IF current_file = None
        THEN /\ callback_returns
             /\ event' = Event("submit", "noop")
        ELSE IF is_empty(password_attempt)
        THEN /\ submit_empty
             /\ event' = Event("submit", "required")
        ELSE IF attempt_succeeds(file_status[i].extension, file_status[i].file_bytes,
                                 password_attempt)
        THEN /\ submit_success(current_file, i)
             /\ event' = Event("submit", "decrypted")
        ELSE /\ submit_failure
             /\ event' = Event("submit", "rejected")

\* a slip: the name is not appended to excluded_files
cancel_current_without_append(current_file, i) ==
    /\ file_status' = [file_status EXCEPT ![i].excluded = TRUE]
    /\ error_message' = MsgCancelled(current_file)
    /\ password_input' = ""
    /\ UNCHANGED <<excluded_files, decrypted_files, uploaded_files>>
    /\ processing' = processing_block(file_status', processing)
    /\ report' = write_summary(file_status', processing, decrypted_files', excluded_files')

\* a slip: the password input is not reset
cancel_current_keeping_password(current_file, i) ==
    /\ file_status' = [file_status EXCEPT ![i].excluded = TRUE]
    /\ excluded_files' = Append(excluded_files, current_file)
    /\ error_message' = MsgCancelled(current_file)
    /\ UNCHANGED <<password_input, decrypted_files, uploaded_files>>
    /\ processing' = processing_block(file_status', processing)
    /\ report' = write_summary(file_status', processing, decrypted_files', excluded_files')

\* src/main.py:154-158
cancel_current(current_file, i) ==
    /\ file_status' = [file_status EXCEPT ![i].excluded = TRUE]
    /\ excluded_files' = Append(excluded_files, current_file)
    /\ error_message' = MsgCancelled(current_file)
    /\ password_input' = ""
    /\ UNCHANGED <<decrypted_files, uploaded_files>>
    /\ processing' = processing_block(file_status', processing)
    /\ report' = write_summary(file_status', processing, decrypted_files', excluded_files')

handle_cancel ==
    LET current_file == get_current_file(file_status)
        i == IndexOf(file_status, current_file)
    IN  IF current_file = None
        THEN /\ callback_returns
             /\ event' = Event("cancel", "noop")
        ELSE /\ cancel_current(current_file, i)
             /\ event' = Event("cancel", "excluded")

Next ==
    \/ \E files \in Batches : run_button(files)
    \/ \E password \in Passwords : text_input(password)
    \/ handle_submit
    \/ handle_cancel

Spec == Init /\ [][Next]_vars

\* The same program fed by an uploader that lets every suffix through.
NextAnySuffix ==
    \/ \E files \in AnyBatches : run_button(files)
    \/ \E password \in Passwords : text_input(password)
    \/ handle_submit
    \/ handle_cancel

SpecAnySuffix == Init /\ [][NextAnySuffix]_vars

\* One run at a time, for the progress of a run: the run button is pressed only
\* when no run is active, and the user who is prompted for a file eventually
\* presses Submit with a password its primitive accepts, or Cancel.
NextUninterrupted ==
    \/ \E files \in Batches : ~processing /\ run_button(files)
    \/ \E password \in Passwords : text_input(password)
    \/ handle_submit
    \/ handle_cancel

AcceptedSubmitOrCancel ==
    /\ get_current_file(file_status) # None
    /\ \/ /\ handle_submit
          /\ LET i == IndexOf(file_status, get_current_file(file_status))
             IN  attempt_succeeds(file_status[i].extension, file_status[i].file_bytes,
                                  password_input)
       \/ handle_cancel

FairSpec == Init /\ [][NextUninterrupted]_vars /\ WF_vars(AcceptedSubmitOrCancel)

----------------------------------------------------------------------------
(* Vocabulary of the properties *)

Range(seq) == { seq[i] : i \in 1..Len(seq) }

NoDuplicates(seq) == \A i, j \in 1..Len(seq) : i # j => seq[i] # seq[j]

\* the submitted filenames are pairwise distinct
DistinctNames(files) ==
    \A i, j \in 1..Len(files) : i # j => files[i].name # files[j].name

Records == { file_status[i] : i \in 1..Len(file_status) }

NamesWhere(P(_)) == { rec.name : rec \in { r \in Records : P(r) } }

Pending(rec) == rec.encrypted /\ ~rec.decrypted /\ ~rec.excluded
IsDecrypted(rec) == rec.decrypted
IsExcluded(rec) == rec.excluded
IsResolved(rec) == ~Pending(rec)

\* index of the pending record that was submitted first (0 when none is pending)
FirstPendingIndex(fs) ==
    IF \E i \in 1..Len(fs) : Pending(fs[i])
    THEN CHOOSE i \in 1..Len(fs) :
            Pending(fs[i]) /\ \A j \in 1..(i - 1) : ~Pending(fs[j])
    ELSE 0

\* name of the first pending record after position i (None when there is none)
NextPendingAfter(fs, i) ==
    IF \E j \in (i + 1)..Len(fs) : Pending(fs[j])
    THEN fs[CHOOSE j \in (i + 1)..Len(fs) :
                Pending(fs[j]) /\ \A k \in (i + 1)..(j - 1) : ~Pending(fs[k])].name
    ELSE None

Count(seq, x) == Cardinality({ i \in 1..Len(seq) : seq[i] = x })

\* some record is pending
SomePending == FirstPendingIndex(file_status) # 0

\* the record the password prompt is about
PromptedRecord == file_status[FirstPendingIndex(file_status)]

\* the primitive for the prompted record's extension takes the password
Accepts(password) ==
    attempt_succeeds(PromptedRecord.extension, PromptedRecord.file_bytes, password)

\* every record but the one at position i is the same before and after the step
OthersUnchanged(i) ==
    /\ Len(file_status') = Len(file_status)
    /\ \A j \in 1..Len(file_status) : j # i => file_status'[j] = file_status[j]

----------------------------------------------------------------------------
(* Properties *)

\* C1: for a batch of pairwise distinct filenames, in every state after the run
\* button: neither name list holds a name twice, the lists share no name,
\* decrypted_files is exactly the names of the records with decrypted = True,
\* excluded_files exactly those with excluded = True, and together they are
\* exactly the records that are not pending.
C1_ListsPartitionResolved ==
    DistinctNames(uploaded_files) =>
        /\ NoDuplicates(decrypted_files)
        /\ NoDuplicates(excluded_files)
        /\ Range(decrypted_files) \cap Range(excluded_files) = {}
        /\ Range(decrypted_files) = NamesWhere(IsDecrypted)
        /\ Range(excluded_files) = NamesWhere(IsExcluded)
        /\ Range(decrypted_files) \cup Range(excluded_files) = NamesWhere(IsResolved)

\* a run over distinct names in which one file was decrypted by password, one
\* was cancelled
C1_Witness ==
    /\ DistinctNames(uploaded_files)
    /\ Len(uploaded_files) >= 2
    /\ event.op \in {"submit", "cancel"}
    /\ \E rec \in Records : rec.encrypted /\ rec.decrypted
    /\ excluded_files # <<>>

\* C2: every record is in exactly one of pending, resolved-decrypted and
\* resolved-excluded; decrypted and excluded are never both true; a record that
\* is not encrypted is decrypted and never excluded.
C2_ThreeStates ==
    \A rec \in Records :
        /\ Cardinality({ k \in {"pending", "decrypted", "excluded"} :
                CASE k = "pending" -> rec.encrypted /\ ~rec.decrypted /\ ~rec.excluded
                  [] k = "decrypted" -> rec.decrypted /\ ~rec.excluded
                  [] k = "excluded" -> rec.excluded /\ ~rec.decrypted }) = 1
        /\ ~(rec.decrypted /\ rec.excluded)
        /\ ~rec.encrypted => rec.decrypted /\ ~rec.excluded

\* an unencrypted record next to an excluded one after a cancel
C2_Witness ==
    /\ event.op = "cancel"
    /\ \E rec \in Records : ~rec.encrypted /\ rec.decrypted
    /\ \E rec \in Records : rec.encrypted /\ rec.excluded

\* C3: get_current_file returns the name of the pending record that was
\* submitted first, and None exactly when no record is pending.
C3_FirstPendingInOrder ==
    LET current_file == get_current_file(file_status)
        first == FirstPendingIndex(file_status)
    IN  /\ current_file = None <=> \A rec \in Records : ~Pending(rec)
        /\ first # 0 => current_file = file_status[first].name

\* a resolved encrypted record precedes the pending one that is returned
C3_Witness ==
    /\ Len(file_status) >= 2
    /\ Pending(file_status[2])
    /\ file_status[1].encrypted /\ ~Pending(file_status[1])
    /\ get_current_file(file_status) = file_status[2].name

\* C4: a submit with a non-empty password that the primitive accepts changes
\* exactly the record get_current_file returns from pending to decrypted,
\* appends its name once to decrypted_files, leaves every other record and
\* excluded_files alone, and clears the error message and the password input.
C4_CorrectPasswordFrame ==
    [][ (event'.op = "submit" /\ handle_submit /\ SomePending
            /\ password_input # "" /\ Accepts(password_input)) =>
            LET i == FirstPendingIndex(file_status)
            IN  /\ file_status[i].name = get_current_file(file_status)
                /\ OthersUnchanged(i)
                /\ file_status'[i].name = file_status[i].name
                /\ file_status'[i].decrypted /\ ~file_status'[i].excluded
                /\ decrypted_files' = Append(decrypted_files, file_status[i].name)
                /\ excluded_files' = excluded_files
                /\ error_message' = NoMessage
                /\ password_input' = "" ]_vars

\* an accepted password on a file that had been refused before, another
\* record in the batch
C4_Witness ==
    /\ event.op = "submit" /\ event.outcome = "decrypted"
    /\ event.failed_before > 0
    /\ Len(file_status) >= 2
    /\ event.file \in Range(decrypted_files)

\* C5: a submit with a non-empty password that the primitive refuses changes no
\* record, neither name list and not processing; the same file stays pending
\* and error_message becomes the incorrect-password message.
C5_WrongPasswordFrame ==
    [][ (event'.op = "submit" /\ handle_submit /\ SomePending
            /\ password_input # "" /\ ~Accepts(password_input)) =>
            /\ UNCHANGED <<file_status, decrypted_files, excluded_files, processing>>
            /\ get_current_file(file_status') = get_current_file(file_status)
            /\ error_message' = MsgIncorrectPassword ]_vars

C5_Witness ==
    /\ event.op = "submit" /\ event.outcome = "rejected"
    /\ error_message = MsgIncorrectPassword
    /\ get_current_file(file_status) = event.file
    /\ password_input # ""

\* C6: a submit with the empty password while a file is pending changes no
\* record and neither name list, leaves the same file pending (also when the
\* primitive would take the empty password) and sets error_message to the
\* password-required message.
C6_EmptyPasswordFrame ==
    [][ (event'.op = "submit" /\ handle_submit /\ SomePending /\ password_input = "") =>
            /\ UNCHANGED <<file_status, decrypted_files, excluded_files, processing>>
            /\ get_current_file(file_status') = get_current_file(file_status)
            /\ error_message' = MsgPasswordRequired ]_vars

\* the empty password was submitted for a file whose primitive would take it
C6_Witness ==
    /\ event.op = "submit" /\ event.outcome = "required"
    /\ error_message = MsgPasswordRequired
    /\ SomePending /\ Accepts("")

\* C7: a cancel while a file is pending moves exactly the record
\* get_current_file returns from pending to excluded, appends its name once to
\* excluded_files, leaves every other record and decrypted_files alone and
\* clears the password input.
C7_CancelFrame ==
    [][ (event'.op = "cancel" /\ handle_cancel /\ SomePending) =>
            LET i == FirstPendingIndex(file_status)
            IN  /\ file_status[i].name = get_current_file(file_status)
                /\ OthersUnchanged(i)
                /\ file_status'[i] = [file_status[i] EXCEPT !.excluded = TRUE]
                /\ ~file_status'[i].decrypted
                /\ excluded_files' = Append(excluded_files, file_status[i].name)
                /\ decrypted_files' = decrypted_files
                /\ password_input' = "" ]_vars

C7_Witness ==
    /\ event.op = "cancel" /\ event.outcome = "excluded"
    /\ Len(file_status) >= 2
    /\ event.file \in Range(excluded_files)
    /\ password_input = ""

\* C8: within one run (any step but a run button with files), a record that is
\* resolved keeps its decrypted and excluded flags, its name occurs as often as
\* before in either list, and get_current_file does not return it.
C8_ResolvedStaysResolved ==
    [][ (event'.outcome # "ingested"
            /\ (handle_submit \/ handle_cancel \/ run_button(<<>>)
                    \/ \E password \in Passwords : text_input(password))) =>
            \A i \in 1..Len(file_status) :
                IsResolved(file_status[i]) =>
                    /\ Len(file_status') = Len(file_status)
                    /\ file_status'[i].name = file_status[i].name
                    /\ file_status'[i].decrypted = file_status[i].decrypted
                    /\ file_status'[i].excluded = file_status[i].excluded
                    /\ Count(decrypted_files', file_status[i].name)
                            = Count(decrypted_files, file_status[i].name)
                    /\ Count(excluded_files', file_status[i].name)
                            = Count(excluded_files, file_status[i].name)
                    /\ get_current_file(file_status') # file_status[i].name ]_vars

\* a file was resolved by password or cancel after an earlier encrypted file had
\* been cancelled
C8_Witness ==
    /\ event.outcome \in {"decrypted", "excluded"}
    /\ Len(file_status) >= 2
    /\ file_status[1].encrypted /\ file_status[1].excluded
    /\ file_status[2].encrypted /\ ~Pending(file_status[2])
    /\ event.file = file_status[2].name

\* C9 as claimed: whatever was tried before, a submit with a password the
\* primitive accepts decrypts the prompted file and get_current_file then
\* returns the next pending file in submission order.
C9_AnyCorrectPasswordDecrypts ==
    [][ (event'.op = "submit" /\ handle_submit /\ SomePending /\ Accepts(password_input)) =>
            LET i == FirstPendingIndex(file_status)
            IN  /\ file_status'[i].decrypted
                /\ get_current_file(file_status') = NextPendingAfter(file_status, i) ]_vars

\* C9, amended: a failed or empty submit leaves the same file prompted, and
\* after any number of them a submit with a non-empty password the primitive
\* accepts decrypts that file; get_current_file then returns the next pending
\* file in submission order (or None), never the file just decrypted.
C9_NoLockout ==
    [][ /\ (event'.op = "submit" /\ handle_submit /\ SomePending
                /\ (password_input = "" \/ ~Accepts(password_input))) =>
            get_current_file(file_status') = get_current_file(file_status)
        /\ (event'.op = "submit" /\ handle_submit /\ SomePending
                /\ password_input # "" /\ Accepts(password_input)) =>
            LET i == FirstPendingIndex(file_status)
            IN  /\ file_status'[i].decrypted
                /\ get_current_file(file_status') = NextPendingAfter(file_status, i)
                /\ get_current_file(file_status') # file_status[i].name ]_vars

\* the password was accepted after MaxRetries or more failed attempts, and the
\* next file is prompted
C9_Witness ==
    /\ event.op = "submit" /\ event.outcome = "decrypted"
    /\ event.failed_before = MaxRetries
    /\ get_current_file(file_status) # None
    /\ get_current_file(file_status) # event.file

\* C10: right after a run button with files, whatever the state before, the
\* registry holds records for the submitted files only, decrypted_files holds
\* only names of submitted files detected as unencrypted, excluded_files is
\* empty and so are the error message and the password input.
C10_RunReplacesBatch ==
    (event.op = "run" /\ event.outcome = "ingested") =>
        LET submitted == Range(uploaded_files)
            unencrypted == { f \in submitted :
                                ~detect_encrypted(extension_of(f.name), f.bytes) }
        IN  /\ { rec.name : rec \in Records } = { f.name : f \in submitted }
            /\ \A rec \in Records :
                   /\ \E f \in submitted : f.name = rec.name /\ f.bytes = rec.file_bytes
                   /\ ~rec.excluded
                   /\ rec.content = None
                   /\ rec.decrypted = ~rec.encrypted
            /\ Len(decrypted_files) = Cardinality({ k \in 1..Len(uploaded_files) :
                                                       uploaded_files[k] \in unencrypted })
            /\ Range(decrypted_files) = { f.name : f \in unencrypted }
            /\ excluded_files = <<>>
            /\ error_message = NoMessage
            /\ password_input = ""

\* the run button was pressed while a file of the earlier run was pending, and
\* that file is not part of the new batch
C10_Witness ==
    /\ event.op = "run" /\ event.outcome = "ingested"
    /\ event.file # None
    /\ \A rec \in Records : rec.name # event.file
    /\ decrypted_files # <<>>

\* C11: processing is true in every state in which a record is pending; a step
\* sets it to false only into a state where get_current_file is None, and the
\* summary written then is exactly decrypted_files and excluded_files as they
\* stand; a summary is written in no other step; a run button over files none
\* of which is encrypted ends in the summary at once, with no prompt.
C11_SummaryOnlyWhenNothingPending ==
    [][ /\ (get_current_file(file_status') # None) => processing'
        /\ (processing /\ ~processing') =>
                /\ get_current_file(file_status') = None
                /\ report' = <<decrypted_files', excluded_files'>>
        /\ (report' # None) =>
                /\ ~processing'
                /\ get_current_file(file_status') = None
                /\ report' = <<decrypted_files', excluded_files'>>
                /\ (processing \/ event'.outcome = "ingested")
        /\ (event'.outcome = "ingested") =>
                IF \E i \in 1..Len(file_status') : file_status'[i].encrypted
                THEN processing' /\ report' = None
                ELSE ~processing' /\ report' # None ]_vars

\* the summary was written by the step that resolved the last pending file, and
\* it lists a decrypted and an excluded name
C11_Witness ==
    /\ event.op \in {"submit", "cancel"}
    /\ report = <<decrypted_files, excluded_files>>
    /\ decrypted_files # <<>>
    /\ excluded_files # <<>>
    /\ ~processing

\* the user presses Submit with a non-empty password the primitive accepts, or Cancel
SuccessfulSubmitOrCancel ==
    /\ SomePending
    /\ \/ handle_submit /\ password_input # "" /\ Accepts(password_input)
       \/ handle_cancel

\* the run has ended: the summary is on the page and every record is decrypted
\* or excluded
Summarised ==
    /\ ~processing
    /\ report # None
    /\ \A rec \in Records : rec.decrypted \/ rec.excluded

\* names appended by successful submits and cancels since the ingestion: both
\* lists, less the names the ingestion loop appended
ResolveOperations ==
    Len(decrypted_files) + Len(excluded_files)
        - Cardinality({ k \in 1..Len(uploaded_files) :
                ~detect_encrypted(extension_of(uploaded_files[k].name),
                                  uploaded_files[k].bytes) })

EncryptedRecords == Cardinality({ i \in 1..Len(file_status) : file_status[i].encrypted })

C13_ErrorScopedToPromptedFile ==
    [][ /\ (/\ get_current_file(file_status') # None
            /\ get_current_file(file_status') # get_current_file(file_status)) =>
                error_message' = NoMessage
        /\ (error_message' # NoMessage) =>
                /\ error_message' \in {MsgPasswordRequired, MsgIncorrectPassword}
                /\ get_current_file(file_status') # None
                /\ get_current_file(file_status') = get_current_file(file_status) ]_vars

\* what the claim calls failing open: the suffix is none of the four, or the
\* library for the suffix cannot read the bytes
SupportedExtensions == {"pdf", "docx", "xlsx", "pptx"}

DetectionFails(file) ==
    LET extension == extension_of(file.name)
    IN  \/ extension = "pdf" /\ file.bytes.fmt # "pdf"
        \/ extension \in {"docx", "xlsx", "pptx"} /\ file.bytes.fmt # "ooxml"

FailsOpen(file) ==
    extension_of(file.name) \notin SupportedExtensions \/ DetectionFails(file)

\* the names of the submitted files that are found unencrypted, in submission order
RECURSIVE UnencryptedNames(_)
UnencryptedNames(files) ==
    IF files = <<>> THEN <<>>
    ELSE LET file == Head(files)
         IN  IF FailsOpen(file) \/ ~file.bytes.enc
             THEN <<file.name>> \o UnencryptedNames(Tail(files))
             ELSE UnencryptedNames(Tail(files))

\* C14: right after the ingestion, before any prompt: every submitted file has a
\* record; the record of a file with an unknown suffix, or whose detection
\* fails, has encrypted = False; every record with encrypted = False is
\* decrypted and its name is in decrypted_files, which holds the unencrypted
\* names in submission order.
C14_IngestionFailsOpen ==
    (event.outcome = "ingested") =>
        /\ \A k \in 1..Len(uploaded_files) :
               \E rec \in Records : rec.name = uploaded_files[k].name
        /\ \A rec \in Records :
               /\ FailsOpen(UploadedFile(rec.name, rec.file_bytes)) => ~rec.encrypted
               /\ ~rec.encrypted => rec.decrypted /\ rec.name \in Range(decrypted_files)
        /\ decrypted_files = UnencryptedNames(uploaded_files)

\* a file of an unknown suffix with protected bytes and a file whose bytes the
\* office library cannot read were ingested as unencrypted, in that order
C14_Witness ==
    /\ event.outcome = "ingested"
    /\ Len(file_status) = 2
    /\ file_status[1].extension \notin SupportedExtensions
    /\ file_status[1].file_bytes.enc
    /\ DetectionFails(UploadedFile(file_status[2].name, file_status[2].file_bytes))
    /\ decrypted_files = <<file_status[1].name, file_status[2].name>>

\* the names of the records of fs that satisfy P, in the order of the registry
NamesInOrder(fs, P(_)) ==
    LET kept == SelectSeq(fs, P)
    IN  [i \in 1..Len(kept) |-> kept[i].name]

DecryptedByPassword(rec) == rec.encrypted /\ rec.decrypted

\* C15: a submit or cancel changes at most one record; a record is resolved
\* only when every encrypted record before it in the registry is resolved; the
\* step leaves both name lists alone or appends one name to one of them; and in
\* every state excluded_files is the excluded names in registry order and
\* decrypted_files is the unencrypted names in submission order followed by
\* the names decrypted by password in registry order.
C15_SequentialInSubmissionOrder ==
    /\ [][ (event'.op \in {"submit", "cancel"}) =>
            /\ Len(file_status') = Len(file_status)
            /\ Cardinality({ i \in 1..Len(file_status) :
                    file_status'[i] # file_status[i] }) <= 1
            /\ \A i \in 1..Len(file_status) :
                   (Pending(file_status[i]) /\ ~Pending(file_status'[i])) =>
                       \A j \in 1..(i - 1) : ~Pending(file_status[j])
            /\ \/ decrypted_files' = decrypted_files /\ excluded_files' = excluded_files
               \/ /\ excluded_files' = excluded_files
                  /\ Len(decrypted_files') = Len(decrypted_files) + 1
                  /\ SubSeq(decrypted_files', 1, Len(decrypted_files)) = decrypted_files
               \/ /\ decrypted_files' = decrypted_files
                  /\ Len(excluded_files') = Len(excluded_files) + 1
                  /\ SubSeq(excluded_files', 1, Len(excluded_files)) = excluded_files ]_vars
    /\ [](/\ excluded_files = NamesInOrder(file_status, IsExcluded)
          /\ decrypted_files = UnencryptedNames(uploaded_files)
                                  \o NamesInOrder(file_status, DecryptedByPassword))

\* two encrypted files were cancelled one after the other
C15_Witness ==
    /\ event.op = "cancel"
    /\ Len(excluded_files) = 2
    /\ excluded_files = <<file_status[1].name, file_status[2].name>>

\* C16: Submit and Cancel with no file pending, before any run or after the
\* summary and whatever the password input holds, change no record, neither
\* name list, not processing and not the error message.
C16_CallbacksWithoutPendingFile ==
    [][ (event'.op \in {"submit", "cancel"} /\ (handle_submit \/ handle_cancel)
            /\ ~SomePending) =>
            UNCHANGED <<file_status, decrypted_files, excluded_files,
                        processing, error_message>> ]_vars

\* Submit was pressed with a password typed in after a run had ended with a
\* cancelled file
C16_Witness ==
    /\ event.op = "submit" /\ event.outcome = "noop"
    /\ password_input # ""
    /\ excluded_files # <<>>
    /\ error_message # NoMessage
    /\ ~processing

\* C17: also when submitted files share a filename, every filename has one
\* record, no filename occurs twice in decrypted_files or in excluded_files,
\* none occurs in both, and none is in decrypted_files while its record is
\* pending.
C17_SharedNamesProcessedOnce ==
    /\ \A i, j \in 1..Len(file_status) :
           file_status[i].name = file_status[j].name => i = j
    /\ NoDuplicates(decrypted_files)
    /\ NoDuplicates(excluded_files)
    /\ Range(decrypted_files) \cap Range(excluded_files) = {}
    /\ \A rec \in Records : Pending(rec) => rec.name \notin Range(decrypted_files)

OfficeExtensions == {"docx", "xlsx", "pptx"}

\* C18: in every state a record has content exactly if it is an office file
\* that was encrypted and has been decrypted by password; so pdf, unencrypted,
\* pending and excluded records have none; and a submit that fails or is empty
\* writes no content.
C18_ContentOnlyForDecryptedOffice ==
    /\ [](\A rec \in Records :
            /\ rec.content # None <=>
                   (rec.extension \in OfficeExtensions /\ rec.encrypted /\ rec.decrypted)
            /\ (rec.extension = "pdf" \/ ~rec.encrypted \/ Pending(rec) \/ rec.excluded) =>
                   rec.content = None)
    /\ [][ (event'.outcome \in {"rejected", "required"}) =>
            /\ Len(file_status') = Len(file_status)
            /\ \A i \in 1..Len(file_status) :
                   file_status'[i].content = file_status[i].content ]_vars

\* a protected pdf and a protected office file were both decrypted by password:
\* only the office record has content
C18_Witness ==
    /\ \E rec \in Records :
           rec.extension = "pdf" /\ rec.encrypted /\ rec.decrypted /\ rec.content = None
    /\ \E rec \in Records :
           rec.extension \in OfficeExtensions /\ rec.decrypted /\ rec.content # None

\* C19: the run button with no file uploaded starts no run: file_status, both
\* name lists, processing, the error message and the password input keep their
\* values.
C19_RunWithoutFilesChangesNothing ==
    [][ (event'.op = "run" /\ run_button(<<>>)) =>
            UNCHANGED <<file_status, decrypted_files, excluded_files,
                        processing, error_message, password_input>> ]_vars

\* the button was pressed without files while a file was prompted, after a
\* refused password: the run is still in progress on the same file
C19_Witness ==
    /\ event.op = "run" /\ event.outcome = "warning"
    /\ processing
    /\ get_current_file(file_status) = event.file
    /\ event.file # None
    /\ error_message = MsgIncorrectPassword
    /\ password_input # ""
    /\ decrypted_files # <<>>

\* C20: a submit or cancel, whatever it does, adds and removes no record and
\* changes no record's name, encrypted flag, extension or raw bytes; the same
\* holds of every step but a run button with files.
C20_IngestedFieldsAreConstant ==
    [][ (event'.outcome # "ingested") =>
            /\ Len(file_status') = Len(file_status)
            /\ \A i \in 1..Len(file_status) :
                   /\ file_status'[i].name = file_status[i].name
                   /\ file_status'[i].encrypted = file_status[i].encrypted
                   /\ file_status'[i].extension = file_status[i].extension
                   /\ file_status'[i].file_bytes = file_status[i].file_bytes ]_vars

\* an office file was decrypted by password: its record holds the decrypted
\* content next to the raw protected bytes and is still flagged encrypted
C20_Witness ==
    /\ event.op = "submit" /\ event.outcome = "decrypted"
    /\ Len(file_status) >= 2
    /\ \E rec \in Records :
           /\ rec.name = event.file
           /\ rec.content # None
           /\ rec.file_bytes.enc
           /\ rec.encrypted

====
